---- MODULE Spec2Model ----
(***************************************************************************)
(* Statement attribute processing of lib/Sema/SemaStmtAttr.cpp:            *)
(* Sema::ProcessStmtAttributes walks the raw attribute list of one         *)
(* statement, hands every attribute to ProcessStmtAttribute (which         *)
(* dispatches to handleFallThroughAttr / handleLoopHintAttr), collects the *)
(* attributes that were created, runs CheckForIncompatibleAttributes over  *)
(* them and finally binds them to the statement.                           *)
(***************************************************************************)
EXTENDS Integers, Sequences, FiniteSets, TLC

VARIABLES
    St,           \* Stmt *S: the statement class of the target statement
    SwitchStack,  \* S.getCurFunction()->SwitchStack
    AttrList,     \* AttributeList *AttrList, in syntactic order
    pc,           \* position inside Sema::ProcessStmtAttributes
    l,            \* loop cursor of the for loop at line 221
    Attrs,        \* SmallVector<const Attr*, 8> Attrs
    Options,      \* the Options[] array of CheckForIncompatibleAttributes
    i,            \* loop cursor of the for loop at line 129
    Diags,        \* everything handed to S.Diag, in order of emission
    Result,       \* the StmtResult returned, <<>> until the function returns
    NodesAllocated \* number of AttributedStmt nodes allocated

vars == <<St, SwitchStack, AttrList, pc, l, Attrs, Options, i, Diags, Result,
          NodesAllocated>>

-----------------------------------------------------------------------------
(* Bounds of the model.                                                    *)

MaxAttrs == 3

MaxHints == 3

MaxSwitchDepth == 1

-----------------------------------------------------------------------------
(* Statement classes.                                                      *)

LoopStmtClasses == {"DoStmt", "ForStmt", "CXXForRangeStmt", "WhileStmt"}

StmtClasses ==
    {"NullStmt", "CaseStmt", "DefaultStmt", "CompoundStmt"} \cup LoopStmtClasses

isaNullStmt(S) == S = "NullStmt"

isaSwitchCase(S) == S \in {"CaseStmt", "DefaultStmt"}

-----------------------------------------------------------------------------
(* Integer values.  An llvm::APSInt is a bit width together with its bits, *)
(* kept as 16-bit limbs, most significant first.  int64_t is four limbs,   *)
(* int is a TLA+ integer in -2^31 .. 2^31-1.                               *)

LimbBase == 65536

LimbSign == 32768

\* APInt::getSExtValue: the bits sign-extended to int64_t (four limbs).
getSExtValue(APS) ==
    LET n    == Len(APS.limbs)
        fill == IF APS.limbs[1] >= LimbSign THEN LimbBase - 1 ELSE 0
    IN  [k \in 1..4 |-> IF k <= 4 - n THEN fill ELSE APS.limbs[k - (4 - n)]]

\* The conversion of the assignment  ValueInt = ValueAPS.getSExtValue():
\* int64_t to int keeps the low 32 bits, read as two's complement.
Int64ToInt(V) ==
    IF V[3] >= LimbSign THEN (V[3] - LimbBase) * LimbBase + V[4]
                        ELSE V[3] * LimbBase + V[4]

-----------------------------------------------------------------------------
(* Source locations and diagnostics.                                       *)

Loc(what, idx) == <<what, idx>>

\* A.getRange(): the attribute at position k of the list owns range k.
RangeBegin(R) == Loc("begin", R)

RangeEnd(R) == Loc("end", R)

\* St->getLocStart()
StLocStart == Loc("stmt", 0)

\* S.getLocForEndOfToken(L)
getLocForEndOfToken(L) == Loc("after", L[2])

StrArg(s) == [t |-> "str", s |-> s, n |-> 0]

BoolArg(b) == [t |-> "bool", s |-> "", n |-> IF b THEN 1 ELSE 0]

IntArg(n) == [t |-> "int", s |-> "", n |-> n]

LocArg(loc) == [t |-> "loc", s |-> loc[1], n |-> loc[2]]

\* FixItHint::CreateInsertion(InsertionLoc, Code)
CreateInsertion(InsertionLoc, Code) ==
    [kind |-> "insertion", loc |-> InsertionLoc, code |-> Code]

\* S.Diag(loc, key) << args... << fix-its...
DiagWithFixIts(loc, key, args, fixits) ==
    [loc |-> loc, key |-> key, args |-> args, fixits |-> fixits]

\* S.Diag(loc, key) << args...
Diag(loc, key, args) == DiagWithFixIts(loc, key, args, <<>>)

-----------------------------------------------------------------------------
(* Attributes.                                                             *)

NullIdent == "<null>"

\* new FallThroughAttr(Range, Context, SpellingListIndex)
FallThroughAttr(R, Idx) ==
    [kind |-> "FallThrough", option |-> "", value |-> 0, range |-> R,
     spellingListIndex |-> Idx, implicit |-> FALSE]

\* LoopHintAttr::CreateImplicit(Context, Option, Value, Range)
LoopHintAttr(Option, ValueInt, R) ==
    [kind |-> "LoopHint", option |-> Option, value |-> ValueInt, range |-> R,
     spellingListIndex |-> 0, implicit |-> TRUE]

BooleanOptions == {"Vectorize", "Interleave", "Unroll"}

NumericOptions == {"VectorizeWidth", "InterleaveCount", "UnrollCount"}

\* LoopHintAttr::getOptionName
getOptionName(Option) ==
    CASE Option = "Vectorize"       -> "vectorize"
      [] Option = "VectorizeWidth"  -> "vectorize_width"
      [] Option = "Interleave"      -> "interleave"
      [] Option = "InterleaveCount" -> "interleave_count"
      [] Option = "Unroll"          -> "unroll"
      [] Option = "UnrollCount"     -> "unroll_count"

\* LoopHintAttr::getValueName
getValueName(Value) == IF Value /= 0 THEN "enable" ELSE "disable"

NoAttr(diags) == [attr |-> <<>>, diags |-> diags]

OneAttr(a) == [attr |-> <<a>>, diags |-> <<>>]

-----------------------------------------------------------------------------
(* handleFallThroughAttr, lines 26-44.                                     *)

handleFallThroughAttr_IgnoresSwitchStack(S, A, Range, Stack) ==
    IF ~isaNullStmt(S)
    THEN NoAttr(<<Diag(RangeBegin(A.range),
                       "err_fallthrough_attr_wrong_target",
                       <<LocArg(StLocStart)>>)>>)
    ELSE OneAttr(FallThroughAttr(A.range, A.spellingListIndex))

handleFallThroughAttr_ChecksBoth(S, A, Range, Stack) ==
    LET wrong == IF isaNullStmt(S) THEN <<>>
                 ELSE <<Diag(RangeBegin(A.range),
                             "err_fallthrough_attr_wrong_target",
                       <<LocArg(StLocStart)>>)>>
        note  == IF ~isaNullStmt(S) /\ isaSwitchCase(S)
                 THEN <<DiagWithFixIts(getLocForEndOfToken(Range.end),
                             "note_fallthrough_insert_semi_fixit", <<>>,
                             <<CreateInsertion(
                                 getLocForEndOfToken(Range.end), ";")>>)>>
                 ELSE <<>>
        outside == IF Stack = <<>>
                   THEN <<Diag(RangeBegin(A.range),
                               "err_fallthrough_attr_outside_switch", <<>>)>>
                   ELSE <<>>
    IN  IF wrong \o note \o outside /= <<>>
        THEN NoAttr(wrong \o note \o outside)
        ELSE OneAttr(FallThroughAttr(A.range, A.spellingListIndex))

handleFallThroughAttr(S, A, Range, Stack) ==
    IF ~isaNullStmt(S)
    THEN NoAttr(<<Diag(RangeBegin(A.range),
                       "err_fallthrough_attr_wrong_target",
                       <<LocArg(StLocStart)>>)>>
                \o (IF isaSwitchCase(S)
                    THEN <<DiagWithFixIts(getLocForEndOfToken(Range.end),
                                "note_fallthrough_insert_semi_fixit", <<>>,
                                <<CreateInsertion(
                                    getLocForEndOfToken(Range.end), ";")>>)>>
                    ELSE <<>>))
    ELSE IF Stack = <<>>
    THEN NoAttr(<<Diag(RangeBegin(A.range),
                       "err_fallthrough_attr_outside_switch", <<>>)>>)
    ELSE OneAttr(FallThroughAttr(A.range, A.spellingListIndex))

-----------------------------------------------------------------------------
(* handleLoopHintAttr, lines 46-105.                                       *)

\* The llvm::StringSwitch of lines 64-72.
OptionType_DefaultsToWidth(Name) ==
    CASE Name = "vectorize"        -> "Vectorize"
      [] Name = "vectorize_width"  -> "VectorizeWidth"
      [] Name = "interleave"       -> "Interleave"
      [] Name = "interleave_count" -> "InterleaveCount"
      [] Name = "unroll"           -> "Unroll"
      [] Name = "unroll_count"     -> "UnrollCount"
      [] OTHER                     -> "VectorizeWidth"

OptionType(Name) ==
    CASE Name = "vectorize"        -> "Vectorize"
      [] Name = "vectorize_width"  -> "VectorizeWidth"
      [] Name = "interleave"       -> "Interleave"
      [] Name = "interleave_count" -> "InterleaveCount"
      [] Name = "unroll"           -> "Unroll"
      [] Name = "unroll_count"     -> "UnrollCount"
      [] OTHER                     -> "Vectorize"

\* ValueLoc->Loc
ValueLocOf(A) == Loc("value", A.range)

\* Expr::isIntegerConstantExpr
isIntegerConstantExpr(E) == E.tag = "const"

handleLoopHintAttr(S, A, Range) ==
    LET Option == OptionType(A.option)
    IN  IF S \notin LoopStmtClasses
        THEN NoAttr(<<Diag(StLocStart, "err_pragma_loop_precedes_nonloop", <<>>)>>)
        ELSE IF Option \in BooleanOptions
        THEN IF A.valueIdent = NullIdent
             THEN NoAttr(<<Diag(ValueLocOf(A),
                                "err_pragma_loop_invalid_keyword", <<>>)>>)
             ELSE IF A.valueIdent = "disable"
             THEN OneAttr(LoopHintAttr(Option, 0, A.range))
             ELSE IF A.valueIdent = "enable"
             THEN OneAttr(LoopHintAttr(Option, 1, A.range))
             ELSE NoAttr(<<Diag(ValueLocOf(A),
                                "err_pragma_loop_invalid_keyword", <<>>)>>)
        ELSE IF A.valueExpr.tag = "null"
                \/ ~isIntegerConstantExpr(A.valueExpr)
                \/ Int64ToInt(getSExtValue(A.valueExpr.aps)) < 1
             THEN NoAttr(<<Diag(ValueLocOf(A),
                                "err_pragma_loop_invalid_value", <<>>)>>)
             ELSE OneAttr(LoopHintAttr(Option,
                                       Int64ToInt(getSExtValue(A.valueExpr.aps)),
                                       A.range))

-----------------------------------------------------------------------------
(* ProcessStmtAttribute, lines 197-216.                                    *)

ProcessStmtAttribute(S, A, Range, Stack) ==
    CASE A.kind = "UnknownAttribute" ->
            NoAttr(<<Diag(Loc("attr", A.range),
                          IF A.isDeclspec
                          THEN "warn_unhandled_ms_attribute_ignored"
                          ELSE "warn_unknown_attribute_ignored",
                          <<StrArg(A.name)>>)>>)
      [] A.kind = "AT_FallThrough" -> handleFallThroughAttr(S, A, Range, Stack)
      [] A.kind = "AT_LoopHint" -> handleLoopHintAttr(S, A, Range)
      [] OTHER ->
            NoAttr(<<Diag(RangeBegin(A.range), "err_attribute_invalid_on_stmt",
                          <<StrArg(A.name), LocArg(StLocStart)>>)>>)

-----------------------------------------------------------------------------
(* CheckForIncompatibleAttributes, lines 107-195.                          *)

\* The initializer of Options[], lines 115-127.
OptionsInit ==
    [c \in 0..2 |->
        [EnableOptionId  |-> CASE c = 0 -> "Vectorize"
                               [] c = 1 -> "Interleave"
                               [] c = 2 -> "Unroll",
         NumericOptionId |-> CASE c = 0 -> "VectorizeWidth"
                               [] c = 1 -> "InterleaveCount"
                               [] c = 2 -> "UnrollCount",
         EnabledIsSet |-> FALSE, ValueIsSet |-> FALSE,
         Enabled |-> FALSE, Value |-> 0]]

\* The switch of lines 139-153.
Category_InterleaveCountAsVectorize(Option) ==
    CASE Option \in {"Vectorize", "VectorizeWidth", "InterleaveCount"} -> 0
      [] Option \in {"Interleave"}                 -> 1
      [] Option \in {"Unroll", "UnrollCount"}      -> 2

Category(Option) ==
    CASE Option \in {"Vectorize", "VectorizeWidth"}   -> 0
      [] Option \in {"Interleave", "InterleaveCount"} -> 1
      [] Option \in {"Unroll", "UnrollCount"}         -> 2

\* The diagnostic of lines 162-166 / 174-177.
DuplicateDiag(ValueLoc, Option, Old, New) ==
    Diag(ValueLoc, "err_pragma_loop_compatibility",
         <<BoolArg(TRUE), StrArg(getOptionName(Option)), Old,
           StrArg(getOptionName(Option)), New>>)

\* The diagnostic of lines 187-192.
IncompatibleDiag(ValueLoc, CS) ==
    Diag(ValueLoc, "err_pragma_loop_compatibility",
         <<BoolArg(FALSE), StrArg(getOptionName(CS.EnableOptionId)),
           StrArg(getValueName(IF CS.Enabled THEN 1 ELSE 0)),
           StrArg(getOptionName(CS.NumericOptionId)), IntArg(CS.Value)>>)

\* Lines 157-181: the duplicate check and the update of the category state.
UpdateCategoryState_DuplicateOnlyIfDifferent(CategoryState, LH) ==
    LET Option   == LH.option
        ValueInt == LH.value
        ValueLoc == RangeEnd(LH.range)
    IN  IF Option \in BooleanOptions
        THEN [diags |-> IF CategoryState.EnabledIsSet
                           /\ CategoryState.Enabled /= (ValueInt /= 0)
                        THEN <<DuplicateDiag(ValueLoc, Option,
                                 StrArg(getValueName(IF CategoryState.Enabled
                                                     THEN 1 ELSE 0)),
                                 StrArg(getValueName(ValueInt)))>>
                        ELSE <<>>,
              state |-> [CategoryState EXCEPT !.EnabledIsSet = TRUE,
                                              !.Enabled = (ValueInt /= 0)]]
        ELSE [diags |-> IF CategoryState.ValueIsSet
                           /\ CategoryState.Value /= ValueInt
                        THEN <<DuplicateDiag(ValueLoc, Option,
                                 IntArg(CategoryState.Value), IntArg(ValueInt))>>
                        ELSE <<>>,
              state |-> [CategoryState EXCEPT !.ValueIsSet = TRUE,
                                              !.Value = ValueInt]]

UpdateCategoryState(CategoryState, LH) ==
    LET Option   == LH.option
        ValueInt == LH.value
        ValueLoc == RangeEnd(LH.range)
    IN  IF Option \in BooleanOptions
        THEN [diags |-> IF CategoryState.EnabledIsSet
                        THEN <<DuplicateDiag(ValueLoc, Option,
                                 StrArg(getValueName(IF CategoryState.Enabled
                                                     THEN 1 ELSE 0)),
                                 StrArg(getValueName(ValueInt)))>>
                        ELSE <<>>,
              state |-> [CategoryState EXCEPT !.EnabledIsSet = TRUE,
                                              !.Enabled = (ValueInt /= 0)]]
        ELSE [diags |-> IF CategoryState.ValueIsSet
                        THEN <<DuplicateDiag(ValueLoc, Option,
                                 IntArg(CategoryState.Value), IntArg(ValueInt))>>
                        ELSE <<>>,
              state |-> [CategoryState EXCEPT !.ValueIsSet = TRUE,
                                              !.Value = ValueInt]]

\* Lines 183-193: the incompatibility check on the updated category state.
CheckCategoryState_OnlyOnNumericHint(CategoryState, LH) ==
    IF CategoryState.EnabledIsSet /\ ~CategoryState.Enabled
       /\ CategoryState.ValueIsSet /\ LH.option \in NumericOptions
    THEN <<IncompatibleDiag(RangeEnd(LH.range), CategoryState)>>
    ELSE <<>>

CheckCategoryState(CategoryState, LH) ==
    IF CategoryState.EnabledIsSet /\ ~CategoryState.Enabled
       /\ CategoryState.ValueIsSet
    THEN <<IncompatibleDiag(RangeEnd(LH.range), CategoryState)>>
    ELSE <<>>

\* One iteration of the loop of lines 129-194 on attribute I.
CheckOneAttr_NoIncompatibleAfterDuplicate(Opts, I) ==
    IF I.kind /= "LoopHint"
    THEN [diags |-> <<>>, options |-> Opts]
    ELSE LET Cat == Category(I.option)
             upd == UpdateCategoryState(Opts[Cat], I)
         IN  [diags   |-> IF upd.diags /= <<>> THEN upd.diags
                          ELSE CheckCategoryState(upd.state, I),
              options |-> [Opts EXCEPT ![Cat] = upd.state]]

CheckOneAttr(Opts, I) ==
    IF I.kind /= "LoopHint"
    THEN [diags |-> <<>>, options |-> Opts]
    ELSE LET Cat == Category(I.option)
             upd == UpdateCategoryState(Opts[Cat], I)
         IN  [diags   |-> upd.diags \o CheckCategoryState(upd.state, I),
              options |-> [Opts EXCEPT ![Cat] = upd.state]]

-----------------------------------------------------------------------------
(* Sema::ProcessStmtAttributes, lines 218-232.                             *)

\* SourceRange Range: the range of the whole attribute list.
Range == [begin |-> Loc("begin", 1), end |-> Loc("end", Len(AttrList))]

\* Sema::ActOnAttributedStmt -> AttributedStmt::Create(AttrLoc, Attrs, SubStmt)
ActOnAttributedStmt(AttrLoc, As, SubStmt) ==
    [node |-> "AttributedStmt", AttrLoc |-> AttrLoc, Attrs |-> As,
     SubStmt |-> SubStmt]

\* The statement S itself, as handed in.
OriginalStmt(S) ==
    [node |-> S, AttrLoc |-> Loc("none", 0), Attrs |-> <<>>, SubStmt |-> ""]

\* One iteration of the loop of lines 221-224.
ProcessStep_StopsAtRejected ==
    /\ pc = "process"
    /\ l <= Len(AttrList)
    /\ LET r == ProcessStmtAttribute(St, AttrList[l], Range, SwitchStack)
       IN  /\ Attrs' = Attrs \o r.attr
           /\ Diags' = Diags \o r.diags
           /\ l' = IF r.attr = <<>> THEN Len(AttrList) + 1 ELSE l + 1
    /\ UNCHANGED <<St, SwitchStack, AttrList, pc, Options, i, Result,
                   NodesAllocated>>

ProcessStep ==
    /\ pc = "process"
    /\ l <= Len(AttrList)
    /\ LET r == ProcessStmtAttribute(St, AttrList[l], Range, SwitchStack)
       IN  /\ Attrs' = Attrs \o r.attr
           /\ Diags' = Diags \o r.diags
    /\ l' = l + 1
    /\ UNCHANGED <<St, SwitchStack, AttrList, pc, Options, i, Result,
                   NodesAllocated>>

\* Line 226: the call of CheckForIncompatibleAttributes, up to its loop.
EnterCheck ==
    /\ pc = "process"
    /\ l > Len(AttrList)
    /\ pc' = "check"
    /\ Options' = OptionsInit
    /\ i' = 1
    /\ UNCHANGED <<St, SwitchStack, AttrList, l, Attrs, Diags, Result,
                   NodesAllocated>>

\* One iteration of the loop of lines 129-194.
CheckStep ==
    /\ pc = "check"
    /\ i <= Len(Attrs)
    /\ LET r == CheckOneAttr(Options, Attrs[i])
       IN  /\ Options' = r.options
           /\ Diags' = Diags \o r.diags
    /\ i' = i + 1
    /\ UNCHANGED <<St, SwitchStack, AttrList, pc, l, Attrs, Result,
                   NodesAllocated>>

\* Lines 228-231, after CheckForIncompatibleAttributes has returned.
Bind_AlwaysWraps ==
    /\ pc = "check"
    /\ i > Len(Attrs)
    /\ Result' = <<ActOnAttributedStmt(Range.begin, Attrs, St)>>
    /\ NodesAllocated' = NodesAllocated + 1
    /\ pc' = "done"
    /\ UNCHANGED <<St, SwitchStack, AttrList, l, Attrs, Options, i, Diags>>

Bind ==
    /\ pc = "check"
    /\ i > Len(Attrs)
    /\ IF Attrs = <<>>
       THEN /\ Result' = <<OriginalStmt(St)>>
            /\ NodesAllocated' = NodesAllocated
       ELSE /\ Result' = <<ActOnAttributedStmt(Range.begin, Attrs, St)>>
            /\ NodesAllocated' = NodesAllocated + 1
    /\ pc' = "done"
    /\ UNCHANGED <<St, SwitchStack, AttrList, l, Attrs, Options, i, Diags>>

Next == ProcessStep \/ EnterCheck \/ CheckStep \/ Bind

-----------------------------------------------------------------------------
(* Inputs.                                                                 *)

NoExpr == [tag |-> "null", aps |-> [limbs |-> <<0, 0>>]]

NonConstExpr == [tag |-> "nonconst", aps |-> [limbs |-> <<0, 0>>]]

ConstExpr(limbs) == [tag |-> "const", aps |-> [limbs |-> limbs]]

\* An int literal 0 <= n < 2^31: a 32-bit APSInt.
IntLit(n) == ConstExpr(<<n \div LimbBase, n % LimbBase>>)

RawAttr(kind, isDeclspec, name, option, valueIdent, valueExpr) ==
    [kind |-> kind, isDeclspec |-> isDeclspec, name |-> name,
     option |-> option, valueIdent |-> valueIdent, valueExpr |-> valueExpr,
     spellingListIndex |-> 0]

LoopHint(option, valueIdent, valueExpr) ==
    RawAttr("AT_LoopHint", FALSE, "loop", option, valueIdent, valueExpr)

FallThrough == RawAttr("AT_FallThrough", FALSE, "fallthrough", "", NullIdent, NoExpr)

UnknownAttr == RawAttr("UnknownAttribute", FALSE, "bogus", "", NullIdent, NoExpr)

UnknownMSAttr == RawAttr("UnknownAttribute", TRUE, "bogus", "", NullIdent, NoExpr)

DeclAttr == RawAttr("AT_Aligned", FALSE, "aligned", "", NullIdent, NoExpr)

\* The attribute list made of the raw attributes f[1..n]: the attribute at
\* position k owns source range k.
ListOf(f) ==
    [k \in DOMAIN f |->
        [kind |-> f[k].kind, isDeclspec |-> f[k].isDeclspec, name |-> f[k].name,
         option |-> f[k].option, valueIdent |-> f[k].valueIdent,
         valueExpr |-> f[k].valueExpr,
         spellingListIndex |-> f[k].spellingListIndex, range |-> k]]

ListsOver(S, n) == UNION {{ListOf(f) : f \in [1..m -> S]} : m \in 0..n}

SwitchStacks == {[k \in 1..d |-> "SwitchStmt"] : d \in 0..MaxSwitchDepth}

\* State at entry of Sema::ProcessStmtAttributes.
Entry ==
    /\ pc = "process"
    /\ l = 1
    /\ Attrs = <<>>
    /\ Options = OptionsInit
    /\ i = 1
    /\ Diags = <<>>
    /\ Result = <<>>
    /\ NodesAllocated = 0

OptionSpellings ==
    {"vectorize", "vectorize_width", "interleave", "interleave_count",
     "unroll", "unroll_count", "distribute"}

ValueIdents == {NullIdent, "enable", "disable", "assume_safety"}

\* 32-bit and 64-bit constants around the limits of int.
SampleAPS ==
    { <<0, 0>>, <<0, 1>>, <<0, 4>>, <<65535, 65535>>,
      <<32767, 65535>>, <<32768, 0>>,
      <<0, 0, 0, 8>>, <<0, 0, 32768, 0>>, <<0, 1, 0, 0>>, <<0, 1, 0, 4>>,
      <<65535, 65535, 0, 1>>, <<65535, 65535, 65535, 65535>>,
      <<32767, 65535, 65535, 65535>> }

ValueExprs == {NoExpr, NonConstExpr} \cup {ConstExpr(v) : v \in SampleAPS}

\* Mixed attribute lists: rejected and accepted attributes side by side.
MixedAttrs ==
    { UnknownAttr, UnknownMSAttr, DeclAttr, FallThrough,
      LoopHint("vectorize", "disable", NoExpr),
      LoopHint("vectorize_width", NullIdent, IntLit(4)),
      LoopHint("unroll_count", NullIdent, IntLit(0)) }

MixedStmts == {"NullStmt", "CaseStmt", "ForStmt"}

Init ==
    /\ St \in MixedStmts
    /\ SwitchStack \in SwitchStacks
    /\ AttrList \in ListsOver(MixedAttrs, MaxAttrs)
    /\ Entry

Spec == Init /\ [][Next]_vars

\* One attribute, every shape of its arguments, on every statement class.
ParseAttrs ==
    { UnknownAttr, UnknownMSAttr, DeclAttr, FallThrough }
    \cup { LoopHint(o, v, e) : o \in OptionSpellings, v \in ValueIdents,
                               e \in ValueExprs }

InitParse ==
    /\ St \in StmtClasses
    /\ SwitchStack \in SwitchStacks
    /\ AttrList \in {ListOf(<<a>>) : a \in ParseAttrs}
    /\ Entry

SpecParse == InitParse /\ [][Next]_vars

\* Well-formed loop hints of all three categories on a loop, or fallthrough
\* markers on a null statement inside a switch.
HintAttrs ==
    { LoopHint(o, v, NoExpr) : o \in {"vectorize", "interleave", "unroll"},
                               v \in {"enable", "disable"} }
    \cup { LoopHint(o, NullIdent, IntLit(n)) :
              o \in {"vectorize_width", "interleave_count", "unroll_count"},
              n \in {4, 8} }

InitCompat ==
    /\ \/ /\ St = "ForStmt"
          /\ AttrList \in ListsOver(HintAttrs, MaxHints)
       \/ /\ St = "NullStmt"
          /\ AttrList \in ListsOver({FallThrough}, MaxHints)
    /\ SwitchStack = <<"SwitchStmt">>
    /\ Entry

SpecCompat == InitCompat /\ [][Next]_vars

-----------------------------------------------------------------------------
(* Vocabulary of the properties.                                           *)

\* The attribute at position k of the list has been handled.
Handled(k) == k < l

\* The diagnostics emitted by CheckForIncompatibleAttributes.
IsCompatDiag(d) == d.key = "err_pragma_loop_compatibility"

CompatDiags == SelectSeq(Diags, IsCompatDiag)

KeyCount(key) == Cardinality({k \in 1..Len(Diags) : Diags[k].key = key})

\* Mathematical reading of a sign-extended 64-bit value: is it >= 1 ?
AtLeastOne64(V) == V[1] < LimbSign /\ V /= <<0, 0, 0, 0>>

\* The int n as a 64-bit value.
IntAsInt64(n) ==
    <<IF n < 0 THEN LimbBase - 1 ELSE 0, IF n < 0 THEN LimbBase - 1 ELSE 0,
      (n \div LimbBase) % LimbBase, n % LimbBase>>

NumericSpellings == {"vectorize_width", "interleave_count", "unroll_count"}

\* The option a boolean-form spelling stands for.
BooleanOptionOf(Name) ==
    CASE Name = "interleave" -> "Interleave"
      [] Name = "unroll"     -> "Unroll"
      [] OTHER               -> "Vectorize"

SetMax(S) == CHOOSE x \in S : \A y \in S : y <= x

\* Positions j <= k of Attrs holding a loop hint with option Opt.
HintsUpTo(k, Opt) ==
    {j \in 1..k : Attrs[j].kind = "LoopHint" /\ Attrs[j].option = Opt}

EnableOptionOf(Opt) ==
    CASE Opt \in {"Vectorize", "VectorizeWidth"}   -> "Vectorize"
      [] Opt \in {"Interleave", "InterleaveCount"} -> "Interleave"
      [] Opt \in {"Unroll", "UnrollCount"}         -> "Unroll"

NumericOptionOf(Opt) ==
    CASE Opt \in {"Vectorize", "VectorizeWidth"}   -> "VectorizeWidth"
      [] Opt \in {"Interleave", "InterleaveCount"} -> "InterleaveCount"
      [] Opt \in {"Unroll", "UnrollCount"}         -> "UnrollCount"

\* After the k first records: the category of Opt has a boolean form whose
\* latest value is disable, and a numeric form.
DisabledWithNumeric(k, Opt) ==
    LET B == HintsUpTo(k, EnableOptionOf(Opt))
        N == HintsUpTo(k, NumericOptionOf(Opt))
    IN  B /= {} /\ N /= {} /\ Attrs[SetMax(B)].value = 0

\* The diagnostics CheckForIncompatibleAttributes emitted at record k.
DiagsAt(k, duplicate) ==
    SelectSeq(CompatDiags,
              LAMBDA d : d.loc = Loc("end", Attrs[k].range)
                         /\ d.args[1] = BoolArg(duplicate))

ValueArg(Opt, v) ==
    IF Opt \in BooleanOptions
    THEN StrArg(IF v = 0 THEN "disable" ELSE "enable")
    ELSE IntArg(v)

VectorizeDisable == LoopHint("vectorize", "disable", NoExpr)

VectorizeWidth4 == LoopHint("vectorize_width", NullIdent, IntLit(4))

VectorizeWidth8 == LoopHint("vectorize_width", NullIdent, IntLit(8))

VectorizeEnable == LoopHint("vectorize", "enable", NoExpr)

-----------------------------------------------------------------------------
(* Properties.                                                             *)

\* C1: handling one fallthrough attribute produces a FallThroughAttr if and
\* only if the statement is a null statement and the switch stack is not
\* empty; otherwise there is no record and at least one error; with a
\* record there is no diagnostic.
C1_FallthroughRecordIff ==
    (AttrList[1].kind = "AT_FallThrough" /\ Handled(1)) =>
        /\ (Attrs /= <<>>) <=> (St = "NullStmt" /\ SwitchStack /= <<>>)
        /\ Attrs /= <<>> =>
              /\ Attrs = <<FallThroughAttr(1, AttrList[1].spellingListIndex)>>
              /\ Diags = <<>>
        /\ Attrs = <<>> =>
              \E k \in 1..Len(Diags) :
                  Diags[k].key \in {"err_fallthrough_attr_wrong_target",
                                    "err_fallthrough_attr_outside_switch"}

C1_Witness ==
    /\ pc = "done"
    /\ AttrList[1].kind = "AT_FallThrough"
    /\ St = "NullStmt"
    /\ SwitchStack /= <<>>
    /\ Len(Attrs) = 1

\* C9 as stated: the two checks of a fallthrough attribute fail
\* independently, so a non-null statement outside any switch gets both the
\* wrong-target error and the outside-switch error.
C9_BothErrorsReported ==
    (AttrList[1].kind = "AT_FallThrough" /\ Handled(1)) =>
        /\ (St /= "NullStmt") <=> KeyCount("err_fallthrough_attr_wrong_target") = 1
        /\ (SwitchStack = <<>>)
              <=> KeyCount("err_fallthrough_attr_outside_switch") = 1
        /\ (St /= "NullStmt" \/ SwitchStack = <<>>) => Attrs = <<>>

\* C9 amended: the checks run in order and the first failure ends the
\* handling.  A non-null statement gets exactly the wrong-target error
\* (followed by the insert-semicolon note exactly when it is a case or
\* default label) whatever the switch stack; the outside-switch error is
\* emitted exactly when the statement is a null statement and the switch
\* stack is empty; the note, and only the note, carries a fix-it inserting
\* ";" at its own location; no record is produced when either check fails,
\* and no diagnostic kind is emitted twice.
C9_FirstFailureOnly ==
    (AttrList[1].kind = "AT_FallThrough" /\ Handled(1)) =>
        /\ (St /= "NullStmt") <=> KeyCount("err_fallthrough_attr_wrong_target") = 1
        /\ (St \in {"CaseStmt", "DefaultStmt"})
              <=> KeyCount("note_fallthrough_insert_semi_fixit") = 1
        /\ \A k \in 1..Len(Diags) :
              Diags[k].fixits =
                 IF Diags[k].key = "note_fallthrough_insert_semi_fixit"
                 THEN <<[kind |-> "insertion", loc |-> Diags[k].loc,
                         code |-> ";"]>>
                 ELSE <<>>
        /\ (St = "NullStmt" /\ SwitchStack = <<>>)
              <=> KeyCount("err_fallthrough_attr_outside_switch") = 1
        /\ \A key \in {Diags[k].key : k \in 1..Len(Diags)} : KeyCount(key) = 1
        /\ (St /= "NullStmt" \/ SwitchStack = <<>>) => Attrs = <<>>

C9_Witness ==
    /\ pc = "done"
    /\ AttrList[1].kind = "AT_FallThrough"
    /\ St = "CaseStmt"
    /\ SwitchStack = <<>>
    /\ Len(Diags) = 2
    /\ Attrs = <<>>

\* C4 as stated: a numeric-form loop hint on a loop yields a record if and
\* only if its value expression is present, is an integer constant and
\* evaluates to a value >= 1, the record then carrying the evaluated value;
\* otherwise exactly one invalid-value error and no record.
C4_NumericRecordIffAtLeastOne ==
    (/\ AttrList[1].kind = "AT_LoopHint"
     /\ AttrList[1].option \in NumericSpellings
     /\ St \in LoopStmtClasses
     /\ Handled(1)) =>
        LET E  == AttrList[1].valueExpr
            ok == E.tag = "const" /\ AtLeastOne64(getSExtValue(E.aps))
        IN  /\ (Attrs /= <<>>) <=> ok
            /\ Attrs /= <<>> =>
                  /\ Len(Attrs) = 1
                  /\ Attrs[1].kind = "LoopHint"
                  /\ Attrs[1].value >= 1
                  /\ IntAsInt64(Attrs[1].value) = getSExtValue(E.aps)
                  /\ Diags = <<>>
            /\ Attrs = <<>> =>
                  /\ Len(Diags) = 1
                  /\ Diags[1].key = "err_pragma_loop_invalid_value"

\* C5: for a loop hint on a loop whose option spelling is boolean-form
\* (vectorize, interleave, unroll, or an unrecognized spelling, taken as
\* vectorize) the value identifier alone decides: enable gives value 1,
\* disable gives value 0, anything else or no identifier gives exactly one
\* invalid-keyword error and no record, whatever the value expression is.
C5_BooleanKeywordDecides ==
    (/\ AttrList[1].kind = "AT_LoopHint"
     /\ AttrList[1].option \notin NumericSpellings
     /\ St \in LoopStmtClasses
     /\ Handled(1)) =>
        LET A == AttrList[1]
        IN  /\ A.valueIdent = "enable" =>
                  /\ Attrs = <<LoopHintAttr(BooleanOptionOf(A.option), 1, 1)>>
                  /\ Diags = <<>>
            /\ A.valueIdent = "disable" =>
                  /\ Attrs = <<LoopHintAttr(BooleanOptionOf(A.option), 0, 1)>>
                  /\ Diags = <<>>
            /\ A.valueIdent \notin {"enable", "disable"} =>
                  /\ Attrs = <<>>
                  /\ Len(Diags) = 1
                  /\ Diags[1].key = "err_pragma_loop_invalid_keyword"
            /\ \A k \in 1..Len(Attrs) : Attrs[k].value \in {0, 1}

C5_Witness ==
    /\ pc = "done"
    /\ AttrList[1].kind = "AT_LoopHint"
    /\ AttrList[1].option = "distribute"
    /\ AttrList[1].valueIdent = "enable"
    /\ AttrList[1].valueExpr.tag = "const"
    /\ St = "WhileStmt"
    /\ Len(Attrs) = 1
    /\ Attrs[1].option = "Vectorize"

\* C3: the records collected are exactly the attributes handled so far that
\* validate on their own, one record each, in syntactic order; a rejected
\* attribute neither adds a record nor stops the attributes after it, and
\* CheckForIncompatibleAttributes leaves the records as they are.
C3_RecordsAreValidatedSubsequence ==
    LET Own(k) == ProcessStmtAttribute(St, AttrList[k], Range, SwitchStack).attr
    IN  /\ \A j \in 1..Len(Attrs) :
              /\ Attrs[j].range \in 1..Len(AttrList)
              /\ Handled(Attrs[j].range)
              /\ Own(Attrs[j].range) = <<Attrs[j]>>
        /\ \A j \in 1..(Len(Attrs) - 1) : Attrs[j].range < Attrs[j + 1].range
        /\ \A k \in 1..Len(AttrList) :
              (Handled(k) /\ Own(k) /= <<>>)
                  => \E j \in 1..Len(Attrs) : Attrs[j].range = k
        /\ pc /= "process" => \A k \in 1..Len(AttrList) : Handled(k)

C3_Witness ==
    /\ pc = "done"
    /\ Len(AttrList) = 3
    /\ Len(Attrs) = 2
    /\ Attrs[1].range = 1
    /\ Attrs[2].range = 3
    /\ CompatDiags /= <<>>

\* C6: ProcessStmtAttributes returns the statement itself, allocating no
\* node, if and only if no attribute of the list produced a record;
\* otherwise it allocates exactly one attributed statement that wraps the
\* statement, sits at the start of the attribute range and carries all
\* records in order.
C6_WrapOnlyWithRecords ==
    LET Own(k) == ProcessStmtAttribute(St, AttrList[k], Range, SwitchStack).attr
        none   == \A k \in 1..Len(AttrList) : Own(k) = <<>>
    IN  /\ pc /= "done" => (Result = <<>> /\ NodesAllocated = 0)
        /\ (pc = "done" /\ none) =>
              (Result = <<OriginalStmt(St)>> /\ NodesAllocated = 0)
        /\ (pc = "done" /\ ~none) =>
              /\ NodesAllocated = 1
              /\ Len(Result) = 1
              /\ Result[1].node = "AttributedStmt"
              /\ Result[1].SubStmt = St
              /\ Result[1].AttrLoc = Loc("begin", 1)
              /\ Result[1].Attrs = Attrs
              /\ Attrs /= <<>>

C6_Witness ==
    /\ pc = "done"
    /\ Len(AttrList) = 3
    /\ Len(Diags) = 3
    /\ Attrs = <<>>
    /\ Result = <<OriginalStmt(St)>>

\* C2: vectorize(disable) and vectorize_width(4) on a loop, in either
\* order: both records are bound, and the compatibility check emits exactly
\* one diagnostic, the incompatible one naming vectorize/disable and
\* vectorize_width/4.
C2_DisableWithWidthOneDiagnostic ==
    (/\ pc = "done"
     /\ AttrList \in {ListOf(<<VectorizeDisable, VectorizeWidth4>>),
                      ListOf(<<VectorizeWidth4, VectorizeDisable>>)}) =>
        /\ Len(Attrs) = 2
        /\ {Attrs[1], Attrs[2]} =
              {LoopHintAttr("Vectorize", 0,
                            IF AttrList[1].option = "vectorize" THEN 1 ELSE 2),
               LoopHintAttr("VectorizeWidth", 4,
                            IF AttrList[1].option = "vectorize" THEN 2 ELSE 1)}
        /\ Attrs[1].range = 1
        /\ Diags = CompatDiags
        /\ Len(CompatDiags) = 1
        /\ CompatDiags[1].args =
              <<BoolArg(FALSE), StrArg("vectorize"), StrArg("disable"),
                StrArg("vectorize_width"), IntArg(4)>>

C2_Witness ==
    /\ pc = "done"
    /\ AttrList = ListOf(<<VectorizeWidth4, VectorizeDisable>>)
    /\ Len(CompatDiags) = 1

\* C7: after each loop hint is applied to the state of its category, the
\* incompatible diagnostic is emitted exactly when that state has a boolean
\* form whose latest value is disable and a numeric form; it is emitted
\* once per such record, names the record's own category, and so may be
\* emitted more than once per category.
C7_IncompatibleAfterEveryRecord ==
    /\ \A k \in 1..Len(Attrs) :
          DiagsAt(k, FALSE) =
             IF pc \in {"check", "done"} /\ k < i /\ Attrs[k].kind = "LoopHint"
                /\ DisabledWithNumeric(k, Attrs[k].option)
             THEN LET Opt == Attrs[k].option
                      N   == HintsUpTo(k, NumericOptionOf(Opt))
                  IN  <<Diag(Loc("end", Attrs[k].range),
                             "err_pragma_loop_compatibility",
                             <<BoolArg(FALSE),
                               StrArg(getOptionName(EnableOptionOf(Opt))),
                               StrArg("disable"),
                               StrArg(getOptionName(NumericOptionOf(Opt))),
                               IntArg(Attrs[SetMax(N)].value)>>)>>
             ELSE <<>>
    /\ pc = "check" =>
          \A Opt \in BooleanOptions :
              LET CS == Options[Category(Opt)]
                  B  == HintsUpTo(i - 1, Opt)
                  N  == HintsUpTo(i - 1, NumericOptionOf(Opt))
              IN  /\ CS.EnabledIsSet <=> B /= {}
                  /\ CS.ValueIsSet <=> N /= {}
                  /\ B /= {} => (CS.Enabled <=> Attrs[SetMax(B)].value /= 0)
                  /\ N /= {} => CS.Value = Attrs[SetMax(N)].value

C7_Witness ==
    /\ pc = "done"
    /\ AttrList = ListOf(<<VectorizeDisable, VectorizeWidth4, VectorizeWidth8>>)
    /\ Len(DiagsAt(2, FALSE)) = 1
    /\ Len(DiagsAt(3, FALSE)) = 1
    /\ Cardinality({k \in 1..Len(CompatDiags) :
                       CompatDiags[k].args[1] = BoolArg(FALSE)}) = 2

\* C8: a duplicate diagnostic is emitted for a record exactly when an
\* earlier record has the same option; it compares the value of the most
\* recent such record with the new value, also when the two are equal; so
\* a category with b boolean and n numeric records gets
\* max(b-1,0) + max(n-1,0) duplicate diagnostics.
C8_DuplicateAgainstLatest ==
    /\ \A k \in 1..Len(Attrs) :
          DiagsAt(k, TRUE) =
             IF pc \in {"check", "done"} /\ k < i /\ Attrs[k].kind = "LoopHint"
                /\ HintsUpTo(k - 1, Attrs[k].option) /= {}
             THEN LET Opt  == Attrs[k].option
                      prev == Attrs[SetMax(HintsUpTo(k - 1, Opt))]
                  IN  <<Diag(Loc("end", Attrs[k].range),
                             "err_pragma_loop_compatibility",
                             <<BoolArg(TRUE),
                               StrArg(getOptionName(Opt)),
                               ValueArg(Opt, prev.value),
                               StrArg(getOptionName(Opt)),
                               ValueArg(Opt, Attrs[k].value)>>)>>
             ELSE <<>>
    /\ pc = "done" =>
          \A Opt \in BooleanOptions :
              LET b == Cardinality(HintsUpTo(Len(Attrs), Opt))
                  n == Cardinality(HintsUpTo(Len(Attrs), NumericOptionOf(Opt)))
                  names == {getOptionName(Opt),
                            getOptionName(NumericOptionOf(Opt))}
              IN  Cardinality({k \in 1..Len(CompatDiags) :
                                  /\ CompatDiags[k].args[1] = BoolArg(TRUE)
                                  /\ CompatDiags[k].args[2].s \in names})
                  = (IF b > 1 THEN b - 1 ELSE 0) + (IF n > 1 THEN n - 1 ELSE 0)

C8_Witness ==
    /\ pc = "done"
    /\ AttrList = ListOf(<<VectorizeEnable, VectorizeWidth4, VectorizeEnable>>)
    /\ Len(CompatDiags) = 1
    /\ CompatDiags[1].args[3] = CompatDiags[1].args[5]

\* C10: CheckForIncompatibleAttributes emits nothing if and only if every
\* category has at most one boolean-form record, at most one numeric-form
\* record, and not both a disable record and a numeric-form record;
\* fallthrough records do not count.
C10_SilentIffConsistent ==
    pc = "done" =>
        (CompatDiags = <<>>
         <=> \A Opt \in BooleanOptions :
                LET B == HintsUpTo(Len(Attrs), Opt)
                    N == HintsUpTo(Len(Attrs), NumericOptionOf(Opt))
                IN  /\ Cardinality(B) <= 1
                    /\ Cardinality(N) <= 1
                    /\ ~(N /= {} /\ \E j \in B : Attrs[j].value = 0))

C10_Witness ==
    /\ pc = "done"
    /\ Len(Attrs) = 3
    /\ Attrs[1].option = "Vectorize"
    /\ Attrs[1].value = 0
    /\ Attrs[2].option = "InterleaveCount"
    /\ Attrs[3].option = "Unroll"
    /\ CompatDiags = <<>>

====
